---- MODULE Spec2Model ----
(***************************************************************************)
(* ExternalUriOpenerService (vs/workbench/contrib/externalUriOpener):      *)
(* the provider registrations and the openExternal request, one action per *)
(* synchronous stretch of the async function between two awaits.           *)
(***************************************************************************)
EXTENDS Integers, Sequences, FiniteSets, TLC

\* ------------------------------------------------------------------ bounds
\* registrations ever made (nodes of the linked list ever allocated)
MaxRegs == 2

\* ------------------------------------------------------- the environment
\* provider objects that callers register
Providers == {"P1", "P2"}

\* request slots (one call of openExternal in flight per slot)
Requests == {"r1"}

\* opener objects the providers hand out: two of them share the id "x"
Openers == {"o1", "o2", "o3"}

OpenerId(o) == IF o = "o2" THEN "y" ELSE "x"

OpenerLabel(o) == IF o = "o1" THEN "X" ELSE IF o = "o2" THEN "Y" ELSE "X2"

\* ExternalOpenerSet objects: S0 has no openers
SetPool == {"S0", "S1", "S2"}

SetOpeners(s) == IF s = "S0" THEN << >> ELSE IF s = "S1" THEN <<"o1">> ELSE <<"o2", "o3">>

\* what a provider's promise settles with: undefined, a rejection, or one of
\* the provider's own sets
Answers == {"undefined", "rejected"} \cup SetPool

AnswersOf(p) == {"undefined", "rejected"} \cup (IF p = "P1" THEN {"S0", "S1"} ELSE {"S2"})

\* hrefs handed to openExternal, as the components URI.parse finds in them
Hrefs ==
  { [scheme |-> "http", host |-> <<"A">>, port |-> ""],
    [scheme |-> "http", host |-> <<"b">>, port |-> "8080"],
    [scheme |-> "http", host |-> << >>, port |-> ""],
    [scheme |-> "a b", host |-> <<"a">>, port |-> ""] }

\* values of the setting workbench.externalUriOpeners
Configs ==
  { << >>,
    << [hostname |-> <<"A">>, id |-> "x"], [hostname |-> <<"a">>, id |-> "z"],
       [hostname |-> <<"a">>, id |-> "y"] >>,
    << [hostname |-> <<"b">>, id |-> "y"], [hostname |-> <<"a">>, id |-> "x"],
       [hostname |-> <<"a">>, id |-> "y"] >> }

externalUriOpenersSettingId == "workbench.externalUriOpeners"

\* ----------------------------------------------------------------- state
VARIABLES
  list,       \* _externalOpenerProviders: [first, last, next, prev, element]
  didRemove,  \* per registration handle: has its remove() already run
  config,     \* the configuration store's value of the setting
  req         \* per request slot: the locals of openExternal and its trace

vars == <<list, didRemove, config, req>>

\* ------------------------------------------------- LinkedList<Provider>
\* Node.Undefined
Undefined == 0

Nodes == 1..MaxRegs

\* LinkedList.push: append a new node, give back its number (the handle)
ListPush(l, p) ==
  LET n == Len(l.element) + 1 IN
  IF l.first = Undefined
  THEN [first |-> n, last |-> n,
        next |-> Append(l.next, Undefined), prev |-> Append(l.prev, Undefined),
        element |-> Append(l.element, p)]
  ELSE [first |-> l.first, last |-> n,
        next |-> [Append(l.next, Undefined) EXCEPT ![l.last] = n],
        prev |-> Append(l.prev, l.last),
        element |-> Append(l.element, p)]

\* LinkedList._remove: unlink the node; the node keeps its own pointers
ListRemove(l, n) ==
  IF l.prev[n] # Undefined /\ l.next[n] # Undefined
  THEN [l EXCEPT !.next[l.prev[n]] = l.next[n], !.prev[l.next[n]] = l.prev[n]]
  ELSE IF l.prev[n] = Undefined /\ l.next[n] = Undefined
  THEN [l EXCEPT !.first = Undefined, !.last = Undefined]
  ELSE IF l.next[n] = Undefined
  THEN [l EXCEPT !.last = l.prev[n], !.next[l.prev[n]] = Undefined]
  ELSE [l EXCEPT !.first = l.next[n], !.prev[l.next[n]] = Undefined]

\* the nodes an iteration started now would visit, in order
RECURSIVE Walk(_, _)
Walk(l, n) == IF n = Undefined THEN << >> ELSE <<n>> \o Walk(l, l.next[n])

Live(l) == Walk(l, l.first)

\* ------------------------------------------------------------ URI and URL
Lower(c) == IF c = "A" THEN "a" ELSE IF c = "B" THEN "b" ELSE c

ToLowerCase(h) == [i \in DOMAIN h |-> Lower(h[i])]

\* URI.parse(href) throws on a scheme with illegal characters
UriParses(href) == href.scheme \in {"http", "https"}

\* targetUri.toString(): the authority is written in lower case, with its port
UriToString(href) == [scheme |-> href.scheme, host |-> ToLowerCase(href.host), port |-> href.port]

\* new URL(s) throws on an http(s) URL without a host
UrlParses(s) == Len(s.host) > 0

\* url.hostname: the host without the port
UrlHostname(s) == s.host

\* --------------------------------------------------- the request's locals
NoHref == [scheme |-> "", host |-> << >>, port |-> ""]

\* a slot before openExternal is called in it
IdleRequest ==
  [pc |-> "idle", href |-> NoHref, node |-> Undefined,
   toDispose |-> {}, openers |-> << >>, items |-> << >>, result |-> "pending",
   exit |-> "none", queried |-> << >>, answered |-> << >>,
   undisposedAtStart |-> << >>, listChanged |-> FALSE,
   retained |-> {}, disposals |-> [s \in SetPool |-> 0],
   invoked |-> << >>, pickerShown |-> 0, picked |-> 0,
   settingsOpened |-> << >>, settingsDone |-> FALSE, settingsFailed |-> FALSE,
   returned |-> "pending", configRead |-> << >>, configScanned |-> FALSE]

\* finally { toDispose.dispose() }: every member of the store is disposed
Finally(q) ==
  [q EXCEPT !.disposals = [s \in SetPool |-> IF s \in q.toDispose THEN @[s] + 1 ELSE @[s]],
            !.toDispose = {}]

\* the async function is over: its promise settles with v
Settle(q, v, how) == [q EXCEPT !.pc = "done", !.result = v, !.exit = how]

\* Delegate handing the opener targetUri.toString() instead of href
DelegateNormalized(q, o, how) ==
  [Finally([q EXCEPT !.invoked = Append(@, [opener |-> o, href |-> UriToString(q.href)])])
     EXCEPT !.pc = "delegated", !.exit = how]

\* `return opener.openExternal(href)` inside the try: the opener is called,
\* the finally block runs, and the request's promise follows the opener's
Delegate(q, o, how) ==
  [Finally([q EXCEPT !.invoked = Append(@, [opener |-> o, href |-> q.href])])
     EXCEPT !.pc = "delegated", !.exit = how]

\* Find returning the last opener with the id instead of the first
RECURSIVE FindLast(_, _, _)
FindLast(openers, id, i) ==
  IF i > Len(openers) THEN "undefined"
  ELSE IF FindLast(openers, id, i + 1) # "undefined" THEN FindLast(openers, id, i + 1)
  ELSE IF OpenerId(openers[i]) = id THEN openers[i]
  ELSE "undefined"

\* openers.find(opener => opener.id === id): the first one, or "undefined"
RECURSIVE Find(_, _, _)
Find(openers, id, i) ==
  IF i > Len(openers) THEN "undefined"
  ELSE IF OpenerId(openers[i]) = id THEN openers[i]
  ELSE Find(openers, id, i + 1)

\* ScanConfig leaving the loop at the first entry with the hostname, whether
\* or not its id names a gathered opener
RECURSIVE ScanConfigStop(_, _, _, _)
ScanConfigStop(cfg, i, hostname, openers) ==
  IF i > Len(cfg) THEN "undefined"
  ELSE IF cfg[i].hostname = hostname THEN Find(openers, cfg[i].id, 1)
  ELSE ScanConfigStop(cfg, i + 1, hostname, openers)

\* for (const entry of config): the opener of the first entry that has the
\* URL's hostname and the id of a gathered opener, or "undefined"
RECURSIVE ScanConfig(_, _, _, _)
ScanConfig(cfg, i, hostname, openers) ==
  IF i > Len(cfg) THEN "undefined"
  ELSE IF cfg[i].hostname = hostname /\ Find(openers, cfg[i].id, 1) # "undefined"
       THEN Find(openers, cfg[i].id, 1)
       ELSE ScanConfig(cfg, i + 1, hostname, openers)

\* the items handed to the picker
PickItems(openers) ==
  [i \in 1..Len(openers) |-> [label |-> OpenerLabel(openers[i]), opener |-> openers[i]]]
  \o << [label |-> "Default", opener |-> "undefined"],
        [type |-> "separator"],
        [label |-> "Configure default opener...", opener |-> "configureDefault"] >>

\* the items a user can select
Selectable(items) == {i \in DOMAIN items : "opener" \in DOMAIN items[i]}

\* every opener a scan without `return` would call, in the order of the entries
RECURSIVE ScanAll(_, _, _, _)
ScanAll(cfg, i, hostname, openers) ==
  IF i > Len(cfg) THEN << >>
  ELSE IF cfg[i].hostname = hostname /\ Find(openers, cfg[i].id, 1) # "undefined"
       THEN <<Find(openers, cfg[i].id, 1)>> \o ScanAll(cfg, i + 1, hostname, openers)
       ELSE ScanAll(cfg, i + 1, hostname, openers)

\* Choose without the `return` of line 88: every resolving entry calls its
\* opener, and the picker is shown after the scan
ChooseNoReturn(q, cfg) ==
  IF ~UrlParses(UriToString(q.href))
  THEN Settle(Finally(q), "rejected", "urlError")
  ELSE LET hostname == UrlHostname(UriToString(q.href))
           called == ScanAll(cfg, 1, hostname, q.openers)
       IN [q EXCEPT !.configRead = cfg, !.configScanned = TRUE,
                    !.invoked = @ \o [k \in DOMAIN called |-> [opener |-> called[k], href |-> q.href]],
                    !.pc = "pick", !.items = PickItems(q.openers),
                    !.pickerShown = @ + 1]

\* Choose calling a lone opener without asking when no entry selects one
ChooseLoneOpener(q, cfg) ==
  IF ~UrlParses(UriToString(q.href))
  THEN Settle(Finally(q), "rejected", "urlError")
  ELSE LET hostname == UrlHostname(UriToString(q.href))
           q1 == [q EXCEPT !.configRead = cfg, !.configScanned = TRUE]
           opener == ScanConfig(cfg, 1, hostname, q.openers)
       IN IF opener # "undefined"
          THEN Delegate(q1, opener, "config")
          ELSE IF Len(q.openers) = 1
          THEN Delegate(q1, q.openers[1], "config")
          ELSE [q1 EXCEPT !.pc = "pick", !.items = PickItems(q.openers),
                          !.pickerShown = @ + 1]

\* Choose scanning a list of entries kept from an earlier read (here: the
\* empty list) instead of the value the store holds now
ChooseCachedConfig(q, cfg) ==
  IF ~UrlParses(UriToString(q.href))
  THEN Settle(Finally(q), "rejected", "urlError")
  ELSE LET hostname == UrlHostname(UriToString(q.href))
           q1 == [q EXCEPT !.configRead = << >>, !.configScanned = TRUE]
           opener == ScanConfig(<< >>, 1, hostname, q.openers)
       IN IF opener # "undefined"
          THEN Delegate(q1, opener, "config")
          ELSE [q1 EXCEPT !.pc = "pick", !.items = PickItems(q.openers),
                          !.pickerShown = @ + 1]

\* Choose releasing the sets before the picker is shown
ChooseDisposeEarly(q, cfg) ==
  IF ~UrlParses(UriToString(q.href))
  THEN Settle(Finally(q), "rejected", "urlError")
  ELSE LET hostname == UrlHostname(UriToString(q.href))
           q1 == [q EXCEPT !.configRead = cfg, !.configScanned = TRUE]
           opener == ScanConfig(cfg, 1, hostname, q.openers)
       IN IF opener # "undefined"
          THEN Delegate(q1, opener, "config")
          ELSE [Finally(q1) EXCEPT !.pc = "pick", !.items = PickItems(q.openers),
                                   !.pickerShown = @ + 1]

\* the try block from `new URL` to the picker (the opener list is not empty)
Choose(q, cfg) ==
  IF ~UrlParses(UriToString(q.href))
  THEN Settle(Finally(q), "rejected", "urlError")
  ELSE LET hostname == UrlHostname(UriToString(q.href))
           q1 == [q EXCEPT !.configRead = cfg, !.configScanned = TRUE]
           opener == ScanConfig(cfg, 1, hostname, q.openers)
       IN IF opener # "undefined"
          THEN Delegate(q1, opener, "config")
          ELSE [q1 EXCEPT !.pc = "pick", !.items = PickItems(q.openers),
                          !.pickerShown = @ + 1]

\* Decide with `return false` placed before the try block
DecideReturnOutsideTry(q, cfg) ==
  IF Len(q.openers) = 0
  THEN Settle(q, "false", "empty")
  ELSE Choose(q, cfg)

\* Decide answering true when no opener was gathered
DecideEmptyTrue(q, cfg) ==
  IF Len(q.openers) = 0
  THEN Settle(Finally(q), "true", "empty")
  ELSE Choose(q, cfg)

\* Decide without the test of openers.length
DecideNoLengthTest(q, cfg) == Choose(q, cfg)

\* the try block up to the picker, entered when the provider loop is over
Decide(q, cfg) ==
  IF Len(q.openers) = 0
  THEN Settle(Finally(q), "false", "empty")
  ELSE Choose(q, cfg)

\* Iterate querying the node and its successor without awaiting the first
IterateFanOut(q, n, cfg) ==
  IF n # Undefined
  THEN IF list.next[n] # Undefined
       THEN [q EXCEPT !.pc = "gather", !.node = list.next[n],
                      !.queried = @ \o <<n, list.next[n]>>]
       ELSE [q EXCEPT !.pc = "gather", !.node = n, !.queried = Append(@, n)]
  ELSE Decide([q EXCEPT !.node = Undefined], cfg)

\* the provider loop reaches node n: query it, or leave the loop
Iterate(q, n, cfg) ==
  IF n # Undefined
  THEN [q EXCEPT !.pc = "gather", !.node = n, !.queried = Append(@, n)]
  ELSE Decide([q EXCEPT !.node = Undefined], cfg)

\* Collect testing set.openers.length instead of set
CollectNonEmpty(q, set) ==
  IF set = "undefined" \/ SetOpeners(set) = << >> THEN q
  ELSE [q EXCEPT !.toDispose = @ \cup {set}, !.retained = @ \cup {set},
                 !.openers = @ \o SetOpeners(set)]

\* if (set) { toDispose.add(set); openers.push(...set.openers) }
Collect(q, set) ==
  IF set = "undefined" THEN q
  ELSE [q EXCEPT !.toDispose = @ \cup {set}, !.retained = @ \cup {set},
                 !.openers = @ \o SetOpeners(set)]

\* the call of preferencesService.openGlobalSettings
SettingsCall == [jsonEditor |-> TRUE, key |-> externalUriOpenersSettingId, edit |-> TRUE]

\* Resolve answering false when no item was picked
ResolveCancelFalse(q, i) ==
  IF i = -1 THEN Settle(Finally(q), "rejected", "pickError")
  ELSE IF i = 0 THEN Settle(Finally(q), "false", "cancel")
  ELSE IF q.items[i].opener = "undefined" THEN Settle(Finally(q), "true", "default")
  ELSE IF q.items[i].opener = "configureDefault"
  THEN [q EXCEPT !.pc = "settings", !.exit = "configure",
                 !.settingsOpened = Append(@, SettingsCall)]
  ELSE Delegate(q, q.items[i].opener, "picked")

\* Resolve without the test for the Default item: undefined.openExternal throws
ResolveNoDefaultTest(q, i) ==
  IF i = -1 THEN Settle(Finally(q), "rejected", "pickError")
  ELSE IF i = 0 THEN Settle(Finally(q), "true", "cancel")
  ELSE IF q.items[i].opener = "undefined" THEN Settle(Finally(q), "rejected", "default")
  ELSE IF q.items[i].opener = "configureDefault"
  THEN [q EXCEPT !.pc = "settings", !.exit = "configure",
                 !.settingsOpened = Append(@, SettingsCall)]
  ELSE Delegate(q, q.items[i].opener, "picked")

\* Resolve without the await before openGlobalSettings
ResolveNoAwait(q, i) ==
  IF i = -1 THEN Settle(Finally(q), "rejected", "pickError")
  ELSE IF i = 0 THEN Settle(Finally(q), "true", "cancel")
  ELSE IF q.items[i].opener = "undefined" THEN Settle(Finally(q), "true", "default")
  ELSE IF q.items[i].opener = "configureDefault"
  THEN Settle(Finally([q EXCEPT !.settingsOpened = Append(@, SettingsCall)]), "true", "configure")
  ELSE Delegate(q, q.items[i].opener, "picked")

\* what the function does with the picker's answer, up to its next await
Resolve(q, i) ==
  IF i = -1 THEN Settle(Finally(q), "rejected", "pickError")
  ELSE IF i = 0 THEN Settle(Finally(q), "true", "cancel")
  ELSE IF q.items[i].opener = "undefined" THEN Settle(Finally(q), "true", "default")
  ELSE IF q.items[i].opener = "configureDefault"
  THEN [q EXCEPT !.pc = "settings", !.exit = "configure",
                 !.settingsOpened = Append(@, SettingsCall)]
  ELSE Delegate(q, q.items[i].opener, "picked")

\* after `await openGlobalSettings(...)`: return true, or its rejection
AfterSettings(q, ok) ==
  IF ok THEN Settle(Finally(q), "true", "configure")
  ELSE Settle(Finally(q), "rejected", "configure")

\* Follow with the opener's failure caught and turned into false
FollowCatch(q, v) == [q EXCEPT !.pc = "done", !.result = IF v = "rejected" THEN "false" ELSE v]

\* the request's promise takes the outcome of the opener's promise
Follow(q, v) == [q EXCEPT !.pc = "done", !.result = v]

\* the registrations whose handle has not been disposed, oldest first
Undisposed(flags) == SelectSeq([n \in DOMAIN flags |-> n], LAMBDA n : ~flags[n])

\* ---------------------------------------------------------------- actions
Init ==
  /\ list = [first |-> Undefined, last |-> Undefined, next |-> << >>, prev |-> << >>,
             element |-> << >>]
  /\ didRemove = << >>
  /\ config \in Configs
  /\ req = [r \in Requests |-> IdleRequest]

\* every request that is gathering sees the list change under its iterator
NoteListChange(rq) ==
  [r \in DOMAIN rq |-> IF rq[r].pc = "gather" THEN [rq[r] EXCEPT !.listChanged = TRUE] ELSE rq[r]]

registerExternalOpenerProvider(provider) ==
  /\ Len(list.element) < MaxRegs
  /\ list' = ListPush(list, provider)
  /\ didRemove' = Append(didRemove, FALSE)
  /\ req' = NoteListChange(req)
  /\ UNCHANGED config

\* unlink the nodes of ns, one after the other
RECURSIVE RemoveEach(_, _)
RemoveEach(l, ns) == IF ns = << >> THEN l ELSE RemoveEach(ListRemove(l, Head(ns)), Tail(ns))

\* a handle whose dispose() removes every registration of its provider
DisposeRegistrationOfProvider(n) ==
  /\ n \in DOMAIN didRemove
  /\ IF didRemove[n]
     THEN UNCHANGED <<list, didRemove, req>>
     ELSE /\ didRemove' = [didRemove EXCEPT ![n] = TRUE]
          /\ list' = RemoveEach(list, SelectSeq(Live(list), LAMBDA m : list.element[m] = list.element[n]))
          /\ req' = NoteListChange(req)
  /\ UNCHANGED config

\* dispose() of the handle that registration n returned
DisposeRegistration(n) ==
  /\ n \in DOMAIN didRemove
  /\ IF didRemove[n]
     THEN UNCHANGED <<list, didRemove, req>>
     ELSE /\ didRemove' = [didRemove EXCEPT ![n] = TRUE]
          /\ list' = ListRemove(list, n)
          /\ req' = NoteListChange(req)
  /\ UNCHANGED config

\* the user or an extension edits the setting
UpdateConfiguration(cfg) ==
  /\ cfg # config
  /\ config' = cfg
  /\ UNCHANGED <<list, didRemove, req>>

\* openExternal(href) up to its first await
OpenExternal(r, href) ==
  /\ req[r].pc \in {"idle", "done"}
  /\ LET q == [IdleRequest EXCEPT !.href = href, !.undisposedAtStart = Undisposed(didRemove)] IN
     req' = [req EXCEPT ![r] =
               IF ~UriParses(href) THEN Settle(q, "rejected", "parseError")
               ELSE Iterate(q, list.first, config)]
  /\ UNCHANGED <<list, didRemove, config>>

\* ProviderAnswers with the provider loop inside the try block
ProviderAnswersInTry(r, answer) ==
  /\ req[r].pc = "gather"
  /\ answer \in AnswersOf(list.element[req[r].node])
  /\ LET q == [req[r] EXCEPT !.answered = Append(@, answer)] IN
     req' = [req EXCEPT ![r] =
               IF answer = "rejected" THEN Settle(Finally(q), "rejected", "gatherError")
               ELSE Iterate(Collect(q, answer), list.next[q.node], config)]
  /\ UNCHANGED <<list, didRemove, config>>

\* provider.provideExternalOpeners settles; the loop goes on to the next await
ProviderAnswers(r, answer) ==
  /\ req[r].pc = "gather"
  /\ answer \in AnswersOf(list.element[req[r].node])
  /\ LET q == [req[r] EXCEPT !.answered = Append(@, answer)] IN
     req' = [req EXCEPT ![r] =
               IF answer = "rejected" THEN Settle(q, "rejected", "gatherError")
               ELSE Iterate(Collect(q, answer), list.next[q.node], config)]
  /\ UNCHANGED <<list, didRemove, config>>

\* PickerAnswers with toDispose a field of the service instead of a local:
\* the finally block of one request releases what every request retained
PickerAnswersSharedStore(r, i) ==
  /\ req[r].pc = "pick"
  /\ i \in Selectable(req[r].items) \cup {0, -1}
  /\ LET q == Resolve([req[r] EXCEPT !.picked = i], i) IN
     req' = [x \in DOMAIN req |->
               IF x = r THEN q
               ELSE IF q.toDispose = {} THEN Finally(req[x]) ELSE req[x]]
  /\ UNCHANGED <<list, didRemove, config>>

\* quickInputService.pick settles with item i (0: no item, -1: it rejects)
PickerAnswers(r, i) ==
  /\ req[r].pc = "pick"
  /\ i \in Selectable(req[r].items) \cup {0, -1}
  /\ req' = [req EXCEPT ![r] = Resolve([req[r] EXCEPT !.picked = i], i)]
  /\ UNCHANGED <<list, didRemove, config>>

\* preferencesService.openGlobalSettings settles
SettingsAnswers(r, ok) ==
  /\ req[r].pc = "settings"
  /\ req' = [req EXCEPT ![r] = AfterSettings([req[r] EXCEPT !.settingsDone = TRUE, !.settingsFailed = ~ok], ok)]
  /\ UNCHANGED <<list, didRemove, config>>

\* the delegated opener's promise settles, and the request's with it
OpenerAnswers(r, v) ==
  /\ req[r].pc = "delegated"
  /\ req' = [req EXCEPT ![r] = Follow([req[r] EXCEPT !.returned = v], v)]
  /\ UNCHANGED <<list, didRemove, config>>

Next ==
  \/ \E p \in Providers : registerExternalOpenerProvider(p)
  \/ \E n \in Nodes : DisposeRegistration(n)
  \/ \E cfg \in Configs : UpdateConfiguration(cfg)
  \/ \E r \in Requests, href \in Hrefs : OpenExternal(r, href)
  \/ \E r \in Requests, answer \in Answers : ProviderAnswers(r, answer)
  \/ \E r \in Requests : \E i \in Selectable(req[r].items) \cup {0, -1} : PickerAnswers(r, i)
  \/ \E r \in Requests, ok \in BOOLEAN : SettingsAnswers(r, ok)
  \/ \E r \in Requests, v \in {"true", "false", "rejected"} : OpenerAnswers(r, v)

Spec == Init /\ [][Next]_vars

\* ------------------------------------------- two requests in flight at once
\* the slots of the concurrent specification
ConcRequests == {"r1", "r2"}

InitConc ==
  /\ list = [first |-> Undefined, last |-> Undefined, next |-> << >>, prev |-> << >>,
             element |-> << >>]
  /\ didRemove = << >>
  /\ config \in Configs
  /\ req = [r \in ConcRequests |-> IdleRequest]

\* as Next, over two slots and with a single registration
NextConc ==
  \/ \E p \in Providers : list.element = << >> /\ registerExternalOpenerProvider(p)
  \/ \E cfg \in Configs : UpdateConfiguration(cfg)
  \/ \E r \in ConcRequests, href \in Hrefs : OpenExternal(r, href)
  \/ \E r \in ConcRequests, answer \in Answers : ProviderAnswers(r, answer)
  \/ \E r \in ConcRequests : \E i \in Selectable(req[r].items) \cup {0, -1} : PickerAnswers(r, i)
  \/ \E r \in ConcRequests, ok \in BOOLEAN : SettingsAnswers(r, ok)
  \/ \E r \in ConcRequests, v \in {"true", "false", "rejected"} : OpenerAnswers(r, v)

\* every promise a request awaits settles: the provider's, the picker's, the
\* Settings UI's and the delegated opener's
Settling(r) ==
  /\ WF_vars(\E answer \in Answers : ProviderAnswers(r, answer))
  /\ WF_vars(\E i \in Selectable(req[r].items) \cup {0, -1} : PickerAnswers(r, i))
  /\ WF_vars(\E ok \in BOOLEAN : SettingsAnswers(r, ok))
  /\ WF_vars(\E v \in {"true", "false", "rejected"} : OpenerAnswers(r, v))

SpecConc == InitConc /\ [][NextConc]_vars /\ \A r \in ConcRequests : Settling(r)

\* ================================================================ claims
\* the hostname the scan compares the entries with
TargetHostname(q) == UrlHostname(UriToString(q.href))

\* the provider loop of the request is over and no query failed
Gathered(q) == q.pc \notin {"idle", "gather"} /\ q.exit \notin {"parseError", "gatherError"}

\* the entries of the configuration read that have the target's hostname
HostEntries(q) == {i \in DOMAIN q.configRead : q.configRead[i].hostname = TargetHostname(q)}

\* the positions of the gathered openers with the given id
WithId(q, id) == {j \in DOMAIN q.openers : OpenerId(q.openers[j]) = id}

\* the entries with the target's hostname and the id of a gathered opener
Resolving(q) == {i \in HostEntries(q) : WithId(q, q.configRead[i].id) # {}}

Min(S) == CHOOSE x \in S : \A y \in S : x <= y

\* C1: when no provider query fails, every opener set the request retained
\* has been disposed exactly once when the request completes, whatever the
\* exit path, and never more than once before
C1_DisposedExactlyOnce ==
  \A r \in Requests :
    /\ \A s \in SetPool : req[r].disposals[s] <= 1
    /\ (req[r].pc = "done" /\ req[r].exit # "gatherError")
         => \A s \in SetPool : req[r].disposals[s] = (IF s \in req[r].retained THEN 1 ELSE 0)

\* a completed request that retained two sets and called the picked opener
C1_Witness ==
  \E r \in Requests :
    /\ req[r].pc = "done" /\ req[r].exit = "picked"
    /\ req[r].retained = {"S1", "S2"}
    /\ req[r].disposals["S1"] = 1 /\ req[r].disposals["S2"] = 1

\* C2: a request never calls more than one opener
C2_AtMostOneOpener == \A r \in Requests : Len(req[r].invoked) <= 1

\* a request whose configuration had two entries that resolve an opener
C2_Witness ==
  \E r \in Requests :
    /\ req[r].configScanned /\ Cardinality(Resolving(req[r])) >= 2
    /\ Len(req[r].invoked) = 1 /\ req[r].pc = "done"

\* C3: when every provider answered undefined or an empty set (or there is
\* no provider), the request resolves to false without picker, configuration
\* match, opener call or Settings UI
C3_EmptyListIsFalse ==
  \A r \in Requests :
    (Gathered(req[r]) /\ \A k \in DOMAIN req[r].answered : req[r].answered[k] \in {"undefined", "S0"})
      => /\ req[r].pc = "done" /\ req[r].result = "false"
         /\ req[r].pickerShown = 0 /\ ~req[r].configScanned
         /\ req[r].invoked = << >> /\ req[r].settingsOpened = << >>

\* two providers, one answering an empty set, one undefined, for an href
\* that new URL would reject
C3_Witness ==
  \E r \in Requests :
    /\ req[r].pc = "done" /\ req[r].result = "false"
    /\ Len(req[r].answered) = 2 /\ req[r].answered[1] = "S0" /\ req[r].answered[2] = "undefined"
    /\ ~UrlParses(UriToString(req[r].href))

\* C4: when an entry of the configuration read has the target's hostname and
\* the id of a gathered opener, the request calls, with the href it was given,
\* the first gathered opener that has the id of the first such entry, never
\* shows the picker, and resolves to what that opener returns
C4_ConfigurationMatch ==
  \A r \in Requests :
    (req[r].configScanned /\ Resolving(req[r]) # {})
      => LET q == req[r]
             entry == q.configRead[Min(Resolving(q))]
             opener == q.openers[Min(WithId(q, entry.id))]
         IN /\ q.invoked = << [opener |-> opener, href |-> q.href] >>
            /\ q.pickerShown = 0
            /\ q.pc \in {"delegated", "done"}
            /\ q.pc = "done" => q.result = q.returned

\* two entries resolve, the first of them is not the first entry, two gathered
\* openers have its id, and the opener returned false
C4_Witness ==
  \E r \in Requests :
    LET q == req[r] IN
    /\ q.configScanned /\ Cardinality(Resolving(q)) >= 2 /\ Min(Resolving(q)) > 1
    /\ Cardinality(WithId(q, q.configRead[Min(Resolving(q))].id)) >= 2
    /\ Min(WithId(q, q.configRead[Min(Resolving(q))].id)) > 1
    /\ q.pc = "done" /\ q.result = "false" /\ q.href # UriToString(q.href)

\* the user picked the item of a gathered opener
PickedOpener(q) == q.picked >= 1 /\ q.picked <= Len(q.openers)

\* the entries with the target's hostname whose id no gathered opener has
Unresolved(q) == HostEntries(q) \ Resolving(q)

\* C5: an entry with the target's hostname and an id no gathered opener has
\* does not end the scan: a later (or any other) entry that resolves an opener
\* still selects it, and when no entry resolves one the picker is shown
C5_UnresolvedEntryIsSkipped ==
  \A r \in Requests :
    (req[r].configScanned /\ Unresolved(req[r]) # {})
      => LET q == req[r] IN
         IF Resolving(q) = {}
         THEN /\ q.pickerShown = 1
              /\ q.invoked # << >> => PickedOpener(q)
         ELSE /\ q.pickerShown = 0
              /\ Len(q.invoked) = 1
              /\ OpenerId(q.invoked[1].opener) = q.configRead[Min(Resolving(q))].id

\* an unresolved entry stands before the entry that selected the opener
C5_Witness ==
  \E r \in Requests :
    LET q == req[r] IN
    /\ q.configScanned /\ Resolving(q) # {}
    /\ \E u \in Unresolved(q) : u < Min(Resolving(q))
    /\ Len(q.invoked) = 1 /\ q.pc = "done"

\* C6: when the user picks the item of an opener, that opener is called once
\* with the href the request was given, no other opener is called, and the
\* request resolves to what the opener returns
C6_PickedOpener ==
  \A r \in Requests :
    PickedOpener(req[r])
      => LET q == req[r] IN
         /\ q.pickerShown = 1
         /\ q.invoked = << [opener |-> q.openers[q.picked], href |-> q.href] >>
         /\ q.pc \in {"delegated", "done"}
         /\ q.pc = "done" => q.result = q.returned

\* the second of three items picked, for an href that differs from its
\* normalized form, and the opener returned false
C6_Witness ==
  \E r \in Requests :
    LET q == req[r] IN
    /\ PickedOpener(q) /\ q.picked = 2 /\ Len(q.openers) = 3
    /\ q.href # UriToString(q.href)
    /\ q.pc = "done" /\ q.result = "false"

\* the picker of the request answered without an item
PickCancelled(q) == q.pickerShown = 1 /\ q.pc # "pick" /\ q.picked = 0

\* C7: when the user cancels the picker, the request resolves to true and
\* calls neither an opener nor the Settings UI
C7_CancelIsTrue ==
  \A r \in Requests :
    PickCancelled(req[r])
      => /\ req[r].pc = "done" /\ req[r].result = "true"
         /\ req[r].invoked = << >> /\ req[r].settingsOpened = << >>

C7_Witness ==
  \E r \in Requests :
    PickCancelled(req[r]) /\ req[r].result = "true" /\ Len(req[r].openers) = 1

\* the user picked the item with the given opener field
PickedItem(q, what) == q.picked >= 1 /\ q.items[q.picked].opener = what

\* C8: when the user picks the Default item, the request resolves to true and
\* calls neither an opener nor the Settings UI
C8_DefaultIsTrue ==
  \A r \in Requests :
    PickedItem(req[r], "undefined")
      => /\ req[r].pc = "done" /\ req[r].result = "true"
         /\ req[r].invoked = << >> /\ req[r].settingsOpened = << >>

C8_Witness ==
  \E r \in Requests :
    /\ PickedItem(req[r], "undefined") /\ req[r].items[req[r].picked].label = "Default"
    /\ req[r].result = "true" /\ Len(req[r].openers) = 2

\* C9: when the user picks the Configure item, the Settings UI is asked once
\* to reveal and edit the opener setting, no opener is called, and the request
\* stays pending until that call has settled; it resolves to true only then
C9_ConfigureOpensSettings ==
  \A r \in Requests :
    PickedItem(req[r], "configureDefault")
      => LET q == req[r] IN
         /\ q.settingsOpened = << [jsonEditor |-> TRUE, key |-> "workbench.externalUriOpeners", edit |-> TRUE] >>
         /\ q.invoked = << >>
         /\ q.pc \in {"settings", "done"}
         /\ q.pc = "settings" => q.result = "pending" /\ ~q.settingsDone
         /\ q.pc = "done" => q.settingsDone /\ q.result \in {"true", "rejected"}

C9_Witness ==
  \E r \in Requests :
    /\ PickedItem(req[r], "configureDefault")
    /\ req[r].pc = "done" /\ req[r].result = "true" /\ req[r].settingsDone

\* the queries the request made of provider p
QueriesOf(q, p) == {k \in DOMAIN q.queried : list.element[q.queried[k]] = p}

\* C10: the collection holds exactly the registrations whose handle has not
\* been disposed, in registration order; a request during whose provider loop
\* no registration changes queries exactly those registrations that were
\* undisposed when it started, once each and in that order, so a provider
\* is queried as many times as it has undisposed registrations
C10_QueriesLiveRegistrations ==
  /\ Live(list) = Undisposed(didRemove)
  /\ \A r \in Requests :
       LET q == req[r] IN
       /\ (q.pc = "gather" /\ ~q.listChanged)
            => q.queried = SubSeq(q.undisposedAtStart, 1, Len(q.queried))
       /\ (Gathered(q) /\ ~q.listChanged)
            => /\ q.queried = q.undisposedAtStart
               /\ \A p \in Providers :
                    Cardinality(QueriesOf(q, p))
                      = Cardinality({k \in DOMAIN q.undisposedAtStart :
                                       list.element[q.undisposedAtStart[k]] = p})

\* one provider registered twice, the first handle disposed, and a request
\* started afterwards that queried the second registration only
C10_Witness ==
  \E r \in Requests :
    /\ Len(list.element) = 2 /\ list.element[1] = list.element[2]
    /\ didRemove = <<TRUE, FALSE>>
    /\ Gathered(req[r]) /\ ~req[r].listChanged /\ req[r].queried = <<2>>

\* C11: a gathered opener set is disposed only when its request completes;
\* in particular not while the delegated opener is still running
C11_DisposedOnlyAtCompletion ==
  \A r \in Requests : \A s \in SetPool :
    req[r].disposals[s] > 0 => req[r].pc = "done"

\* the opener sets the answers hold, flattened in the order of the answers
RECURSIVE Flatten(_)
Flatten(answers) ==
  IF answers = << >> THEN << >>
  ELSE (IF Head(answers) \in SetPool THEN SetOpeners(Head(answers)) ELSE << >>)
       \o Flatten(Tail(answers))

\* C12: a request has at most one provider query outstanding, and exactly one
\* while it gathers; it queries the registrations in registration order, each
\* after the answer of the one before; its opener list is the concatenation
\* of the answers in that order
C12_SequentialGathering ==
  \A r \in Requests :
    LET q == req[r] IN
    /\ Len(q.queried) = Len(q.answered) + (IF q.pc = "gather" THEN 1 ELSE 0)
    /\ \A k \in 1..(Len(q.queried) - 1) : q.queried[k] < q.queried[k + 1]
    /\ q.pc = "gather" => q.node = q.queried[Len(q.queried)]
    /\ q.openers = Flatten(q.answered)

\* the second registration is being queried after the first answered S2
C12_Witness ==
  \E r \in Requests :
    /\ req[r].pc = "gather" /\ req[r].queried = <<1, 2>>
    /\ req[r].answered = <<"S2">> /\ req[r].openers = <<"o2", "o3">>

\* C13: when the delegated opener fails, the request fails, no second opener
\* is called, the picker is not shown (again), and every retained set has been
\* released exactly once
C13_OpenerFailurePropagates ==
  \A r \in Requests :
    (req[r].pc = "done" /\ req[r].returned = "rejected")
      => LET q == req[r] IN
         /\ q.result = "rejected"
         /\ Len(q.invoked) = 1
         /\ q.pickerShown = (IF PickedOpener(q) THEN 1 ELSE 0)
         /\ \A s \in SetPool : q.disposals[s] = (IF s \in q.retained THEN 1 ELSE 0)

\* the opener selected by the configuration failed, with two sets retained
C13_Witness ==
  \E r \in Requests :
    /\ req[r].pc = "done" /\ req[r].returned = "rejected" /\ req[r].result = "rejected"
    /\ req[r].pickerShown = 0 /\ req[r].retained = {"S1", "S2"}

\* a query of the request was rejected
QueryFailed(q) == q.answered # << >> /\ q.answered[Len(q.answered)] = "rejected"

\* C14: when a provider query fails, the request fails at once: no later
\* provider is queried, the configuration is not read, the picker is not
\* shown, no opener is called, and the sets gathered before stay unreleased
C14_GatherFailure ==
  \A r \in Requests :
    QueryFailed(req[r])
      => LET q == req[r] IN
         /\ q.pc = "done" /\ q.result = "rejected"
         /\ Len(q.queried) = Len(q.answered)
         /\ ~q.configScanned /\ q.pickerShown = 0
         /\ q.invoked = << >> /\ q.settingsOpened = << >>
         /\ q.toDispose = q.retained
         /\ \A s \in SetPool : q.disposals[s] = 0

\* the second of two queries failed after the first answered a set
C14_Witness ==
  \E r \in Requests :
    /\ req[r].answered = <<"S1", "rejected">> /\ req[r].pc = "done"
    /\ req[r].retained = {"S1"} /\ req[r].disposals["S1"] = 0

\* the opener sets among the answers the request received
AnsweredSets(q) == {q.answered[k] : k \in DOMAIN q.answered} \cap SetPool

\* C16 as stated: a handle is retained for exactly the answers that are
\* opener sets with at least one opener
C16_OnlyNonEmptySetsRetained ==
  \A r \in Requests :
    req[r].retained = {s \in AnsweredSets(req[r]) : SetOpeners(s) # << >>}

\* C16 amended: a handle is retained for exactly the answers that are opener
\* sets, with or without openers, and for no undefined answer; each retained
\* handle is held until the finally block and released there
C16_EverySetRetained ==
  \A r \in Requests :
    LET q == req[r] IN
    /\ q.retained = AnsweredSets(q)
    /\ \A s \in SetPool : q.disposals[s] = (IF s \in q.retained \ q.toDispose THEN 1 ELSE 0)
    /\ (q.pc = "done" /\ ~QueryFailed(q)) => q.toDispose = {}

\* an undefined answer and an empty set: the empty set was retained and released
C16_Witness ==
  \E r \in Requests :
    /\ req[r].answered = <<"undefined", "S0">> /\ req[r].pc = "done"
    /\ req[r].retained = {"S0"} /\ req[r].disposals["S0"] = 1

\* the gathered openers, as a set
Gathering(q) == {q.openers[j] : j \in DOMAIN q.openers}

\* C19: an opener is called only if the request gathered it and either the
\* picker was not shown and an entry of the configuration read has the
\* target's hostname and the opener's id, or the user picked its item; a lone
\* gathered opener that no entry selects is offered in the picker, not called
C19_OnlySelectedOpeners ==
  \A r \in Requests :
    LET q == req[r] IN
    /\ \A k \in DOMAIN q.invoked :
         /\ q.invoked[k].opener \in Gathering(q)
         /\ \/ /\ q.pickerShown = 0
               /\ \E i \in HostEntries(q) : q.configRead[i].id = OpenerId(q.invoked[k].opener)
            \/ /\ PickedOpener(q)
               /\ q.openers[q.picked] = q.invoked[k].opener
    /\ (q.configScanned /\ Len(q.openers) = 1 /\ Resolving(q) = {})
         => /\ q.pickerShown = 1
            /\ q.invoked # << >> => PickedOpener(q)

\* one opener gathered, no entry selects it: the picker is open and the
\* opener has not been called
C19_Witness ==
  \E r \in Requests :
    /\ req[r].pc = "pick" /\ req[r].openers = <<"o1">>
    /\ req[r].configRead # << >> /\ req[r].invoked = << >>

\* C20: a request that completes without failure resolves to false exactly
\* when it gathered no opener or the one opener it called returned false;
\* after a cancelled picker, the Default item or the Configure item it
\* resolves to true
C20_ResultTable ==
  \A r \in Requests :
    (req[r].pc = "done" /\ req[r].result # "rejected")
      => LET q == req[r] IN
         /\ q.result \in {"true", "false"}
         /\ q.result = "false"
              <=> \/ Len(q.openers) = 0
                  \/ Len(q.invoked) = 1 /\ q.returned = "false"
         /\ (PickCancelled(q) \/ PickedItem(q, "undefined") \/ PickedItem(q, "configureDefault"))
              => q.result = "true"

\* a request that gathered openers and resolved to false through the opener
\* the configuration selected
C20_Witness ==
  \E r \in Requests :
    /\ req[r].pc = "done" /\ req[r].result = "false"
    /\ Len(req[r].openers) = 3 /\ req[r].pickerShown = 0 /\ req[r].returned = "false"

\* what a request's own picker answer and own opener make of its result
OwnOutcome(q) ==
  /\ \A s \in SetPool : q.disposals[s] <= 1
  /\ q.pickerShown <= 1
  /\ PickedOpener(q)
       => /\ q.invoked = << [opener |-> q.openers[q.picked], href |-> q.href] >>
          /\ q.pc = "done" => q.result = q.returned
  /\ (PickCancelled(q) \/ PickedItem(q, "undefined")) => q.result = "true" /\ q.invoked = << >>

\* C15: with two requests in flight, a step of one request changes nothing
\* of the other: not the sets it retains, not how often they were disposed,
\* not its picker, its opener call or its result; and each request's result
\* comes from its own picker answer and its own opener.  (Disposals are
\* counted per request: the sets the providers hand to two requests are
\* different objects.)
C15_RequestsAreIndependent ==
  /\ [](\A a \in DOMAIN req : OwnOutcome(req[a]))
  /\ [][\A a \in DOMAIN req : \A b \in DOMAIN req \ {a} :
          req'[b] # req[b] => req'[a] = req[a]]_vars

\* one request has completed and released its set while the other, which
\* gathered a set of its own, still waits for its picker
C15_Witness ==
  /\ req["r1"].pc = "pick" /\ req["r1"].toDispose = {"S1"} /\ req["r1"].disposals["S1"] = 0
  /\ req["r2"].pc = "done" /\ req["r2"].retained = {"S1"} /\ req["r2"].disposals["S1"] = 1
  /\ req["r2"].picked = 1 /\ req["r2"].result = "false"

\* the request awaits a provider, the picker, the Settings UI or its opener
InFlight(q) == q.pc \in {"gather", "pick", "settings", "delegated"}

\* the request is over and, unless a provider query failed, has released
\* every set it retained
Completed(q) ==
  /\ q.pc = "done"
  /\ QueryFailed(q) \/ (q.toDispose = {} /\ \A s \in q.retained : q.disposals[s] = 1)

\* C17: while its picker has not answered, a request is not completed, has
\* released nothing and called no opener, and no step of anything else
\* changes it; and when every promise it awaits settles, a request in flight
\* eventually completes with every retained set released
C17_SuspendedUntilPicked ==
  /\ [](\A r \in DOMAIN req :
          req[r].pc = "pick"
            => /\ req[r].result = "pending" /\ req[r].invoked = << >>
               /\ req[r].toDispose = req[r].retained
               /\ \A s \in SetPool : req[r].disposals[s] = 0)
  /\ [][\A r \in DOMAIN req :
          (req[r].pc = "pick" /\ req'[r].pc = "pick") => req'[r] = req[r]]_vars
  /\ \A r \in ConcRequests : InFlight(req[r]) ~> Completed(req[r])

\* a request waits for its picker with a set retained while the other
\* request has run to completion
C17_Witness ==
  /\ req["r1"].pc = "pick" /\ req["r1"].retained = {"S2"} /\ req["r1"].result = "pending"
  /\ req["r2"].pc = "done" /\ req["r2"].exit = "configure"

\* everything a request takes in: the href, the providers queried and their
\* answers, the configuration read, the picker's answer, the outcome of the
\* Settings UI call and of the opener called
Inputs(q) ==
  [href |-> q.href,
   providers |-> [k \in DOMAIN q.queried |-> list.element[q.queried[k]]],
   answered |-> q.answered,
   configScanned |-> q.configScanned, configRead |-> q.configRead,
   picked |-> q.picked, settingsFailed |-> q.settingsFailed, returned |-> q.returned]

\* what a request does and yields
Outputs(q) ==
  [result |-> q.result, invoked |-> q.invoked, pickerShown |-> q.pickerShown,
   settingsOpened |-> q.settingsOpened, disposals |-> q.disposals]

\* C18: two completed requests with the same inputs have the same result and
\* the same opener call, whatever ran in either slot before; and the step in
\* which a request scans the configuration reads the value the store holds
\* at that moment
C18_NoCarriedState ==
  /\ [](\A a \in DOMAIN req : \A b \in DOMAIN req :
          (req[a].pc = "done" /\ req[b].pc = "done" /\ Inputs(req[a]) = Inputs(req[b]))
            => Outputs(req[a]) = Outputs(req[b]))
  /\ [][\A r \in DOMAIN req :
          (req[r].pc \in {"idle", "done", "gather"} /\ req'[r] # req[r] /\ req'[r].configScanned)
            => req'[r].configRead = config]_vars

\* two completed requests with equal inputs and equal outputs, whose
\* configuration differs from the one the store holds now
C18_Witness ==
  /\ req["r1"].pc = "done" /\ req["r2"].pc = "done"
  /\ Inputs(req["r1"]) = Inputs(req["r2"]) /\ Outputs(req["r1"]) = Outputs(req["r2"])
  /\ req["r1"].configScanned /\ req["r1"].configRead # config
  /\ Len(req["r1"].invoked) = 1 /\ req["r1"].result = "false"

====
